---- MODULE Spec2Model ----
(***************************************************************************)
(* epydemic: the SEIR compartmented model (seir_model.py) and the Monitor  *)
(* process (monitor.py), run together over one network by a discrete-event *)
(* scheduler.  The handlers and the two build methods are translated from  *)
(* the source; the collaborators they call (compartment and locus          *)
(* bookkeeping, edge occupancy, posted events, the event loop) live in     *)
(* the base classes and are modelled from their documented contract.       *)
(* Simulated time is counted in whole ticks; probabilities are             *)
(* percentages.                                                            *)
(***************************************************************************)
EXTENDS Integers, Sequences, FiniteSets, TLC

VARIABLES
    phase,       \* lifecycle: "constructed", "reset", "seirBuilt", "running", "done"
    network,     \* the contact network: a set of undirected edges {a, b}
    params,      \* the experimental parameters handed to build()
    comp,        \* node -> compartment label
    loci,        \* locus name -> set of elements currently in the locus
    rules,       \* the per-element event rules registered by SEIR.build
    occupied,    \* undirected edge -> time it was marked occupied, or NotOccupied
    now,         \* current simulated time
    posted,      \* posted (repeating) events still in the scheduler's queue
    timeSeries,  \* Monitor._timeSeries
    results,     \* the results mapping of the run
    error,       \* exception that ended the run, or "none"
    lastEvent,   \* the last handler invocation made by the scheduler
    nFired,      \* number of disease handler invocations so far in this run
    nObs         \* number of Monitor.observe invocations so far in this run

vars == <<phase, network, params, comp, loci, rules, occupied, now, posted,
          timeSeries, results, error, lastEvent, nFired, nObs>>

-----------------------------------------------------------------------------
(* Bounds of the model *)

NumNodes == 2
MaxTime == 1

\* the nodes of the network the run was given
Nodes == DOMAIN comp
MaxObs == MaxTime + 1

-----------------------------------------------------------------------------
(* Names declared by the two classes *)

P_EXPOSED == "epydemic.SEIR.pExposed"
P_INFECT_ASYMPTOMATIC == "epydemic.SEIR.pInfectA"
P_INFECT_SYMPTOMATIC == "epydemic.SEIR.pInfect"
P_SYMPTOMS == "epydemic.SEIR.pSymptoms"
P_REMOVE == "epydemic.SEIR.pRemove"

SUSCEPTIBLE == "epydemic.SEIR.S"
EXPOSED == "epydemic.SEIR.E"
INFECTED == "epydemic.SEIR.I"
REMOVED == "epydemic.SEIR.R"

SE == "epydemic.SEIR.SE"
SI == "epydemic.SEIR.SI"

DELTA == "time_delta"
OBSERVATIONS == "loci_observations"
TIMESERIES == "loci_timeseries"

Compartments == {SUSCEPTIBLE, EXPOSED, INFECTED, REMOVED}
NoCompartment == "none"
NotOccupied == -1

-----------------------------------------------------------------------------
(* Inputs *)

\* probabilities, in percent
Probabilities == {0, 50, 100}
Rates == {0, 100}
Deltas == {-1, 0, 1, 2}

AllEdges == {{a, b} : a \in Nodes, b \in Nodes} \ {{a} : a \in Nodes}
Path(n) == {{a, a + 1} : a \in 1..(n - 1)}
PathNetwork == Path(NumNodes)
Networks == {PathNetwork}

ParamSets ==
    { [k \in {P_EXPOSED, P_INFECT_ASYMPTOMATIC, P_INFECT_SYMPTOMATIC,
              P_SYMPTOMS, P_REMOVE, DELTA} |->
          CASE k = P_EXPOSED -> pe
            [] k = P_INFECT_ASYMPTOMATIC -> pa
            [] k = P_INFECT_SYMPTOMATIC -> pi
            [] k = P_SYMPTOMS -> ps
            [] k = P_REMOVE -> pr
            [] OTHER -> d] :
        pe \in Probabilities, pa \in Rates, pi \in Rates, ps \in Rates,
        pr \in Rates, d \in Deltas }

NoEvent == [handler |-> "none", elem |-> <<>>, t |-> 0]
NoTimeSeries(kind) == [kind |-> kind, d |-> <<>>]
NoResults == [made |-> FALSE, rc |-> <<>>, shared |-> FALSE]

-----------------------------------------------------------------------------
(* SEIR.build: what the model declares *)

\* variant: the seed population is placed into INFECTED, as SIR does
InitialOccupancy_seedsInfected(c, pExposed) ==
    CASE c = SUSCEPTIBLE -> 100 - pExposed
      [] c = EXPOSED -> 0
      [] c = INFECTED -> pExposed
      [] c = REMOVED -> 0

\* variant: the two occupancy probabilities are exchanged
InitialOccupancy_exchanged(c, pExposed) ==
    CASE c = SUSCEPTIBLE -> pExposed
      [] c = EXPOSED -> 100 - pExposed
      [] c = INFECTED -> 0
      [] c = REMOVED -> 0

\* addCompartment: the initial occupancy probability of each compartment
InitialOccupancy(c, pExposed) ==
    CASE c = SUSCEPTIBLE -> 100 - pExposed
      [] c = EXPOSED -> pExposed
      [] c = INFECTED -> 0
      [] c = REMOVED -> 0

\* trackEdgesBetweenCompartments / trackNodesInCompartment: the compartments
\* a locus watches, an edge locus as (left, right) and a node locus as (c)
TrackedLoci ==
    [l \in {SE, SI, EXPOSED, INFECTED} |->
        CASE l = SE -> <<SUSCEPTIBLE, EXPOSED>>
          [] l = SI -> <<SUSCEPTIBLE, INFECTED>>
          [] l = EXPOSED -> <<EXPOSED>>
          [] l = INFECTED -> <<INFECTED>>]

\* variant: the removal rule is registered with probability 0
EventRules_noRemoval(p) ==
    [l \in {SE, SI, EXPOSED, INFECTED} |->
        CASE l = SE -> [prob |-> p[P_INFECT_ASYMPTOMATIC], handler |-> "infectAsymptomatic"]
          [] l = SI -> [prob |-> p[P_INFECT_SYMPTOMATIC], handler |-> "infect"]
          [] l = EXPOSED -> [prob |-> p[P_SYMPTOMS], handler |-> "symptoms"]
          [] l = INFECTED -> [prob |-> 0, handler |-> "remove"]]

\* addEventPerElement: locus -> (probability, handler)
EventRules(p) ==
    [l \in {SE, SI, EXPOSED, INFECTED} |->
        CASE l = SE -> [prob |-> p[P_INFECT_ASYMPTOMATIC], handler |-> "infectAsymptomatic"]
          [] l = SI -> [prob |-> p[P_INFECT_SYMPTOMATIC], handler |-> "infect"]
          [] l = EXPOSED -> [prob |-> p[P_SYMPTOMS], handler |-> "symptoms"]
          [] l = INFECTED -> [prob |-> p[P_REMOVE], handler |-> "remove"]]

-----------------------------------------------------------------------------
(* The compartmented-process collaborator *)

\* a locus another process of the run may track: the REMOVED nodes
OtherLoci == [l \in {REMOVED} |-> <<REMOVED>>]

\* the compartments watched by every locus the run may hold
LocusKinds ==
    [l \in DOMAIN TrackedLoci \cup DOMAIN OtherLoci |->
        IF l \in DOMAIN TrackedLoci THEN TrackedLoci[l] ELSE OtherLoci[l]]

IsEdgeLocus(l) == Len(LocusKinds[l]) = 2

\* every element a locus could hold: an edge locus holds edges oriented
\* (node in the left compartment, node in the right compartment)
Elements(l) == IF IsEdgeLocus(l) THEN Nodes \X Nodes ELSE Nodes

Qualifies(l, c, x) ==
    IF IsEdgeLocus(l)
    THEN /\ {x[1], x[2]} \in network
         /\ c[x[1]] = LocusKinds[l][1]
         /\ c[x[2]] = LocusKinds[l][2]
    ELSE c[x] = LocusKinds[l][1]

Touches(l, n, x) == IF IsEdgeLocus(l) THEN n \in {x[1], x[2]} ELSE x = n

\* seeding: every node draws a compartment of positive initial occupancy
Seedings(pExposed) ==
    [Nodes -> {c \in Compartments : InitialOccupancy(c, pExposed) > 0}]

\* change a node's compartment: the label changes, the node and its edges
\* leave the loci they no longer qualify for and enter those they now do
changeCompartment(n, c) ==
    /\ comp' = [comp EXCEPT ![n] = c]
    /\ loci' = [l \in DOMAIN loci |->
                  {x \in loci[l] : ~Touches(l, n, x)}
                  \cup {x \in Elements(l) : Touches(l, n, x) /\ Qualifies(l, comp', x)}]

\* mark an edge as having transmitted infection at time t
markOccupied(e, t) ==
    occupied' = [occupied EXCEPT ![{e[1], e[2]}] = t]

-----------------------------------------------------------------------------
(* SEIR: the transition handlers *)

\* variant: the other endpoint of the edge is taken
infect_otherEndpoint(t, e) ==
    LET n == e[2] IN
    /\ changeCompartment(n, EXPOSED)
    /\ markOccupied(e, t)

infect(t, e) ==
    LET n == e[1] IN
    /\ changeCompartment(n, EXPOSED)
    /\ markOccupied(e, t)

infectAsymptomatic(t, e) == infect(t, e)

\* variant: the node is removed without becoming symptomatic
symptoms_skipsInfected(t, n) ==
    /\ changeCompartment(n, REMOVED)
    /\ UNCHANGED occupied

symptoms(t, n) ==
    /\ changeCompartment(n, INFECTED)
    /\ UNCHANGED occupied

\* variant: a removed node is susceptible again
remove_backToSusceptible(t, n) ==
    /\ changeCompartment(n, SUSCEPTIBLE)
    /\ UNCHANGED occupied

remove(t, n) ==
    /\ changeCompartment(n, REMOVED)
    /\ UNCHANGED occupied

-----------------------------------------------------------------------------
(* Monitor *)

\* the first observation builds one list for the observation times and one
\* per locus
FirstRun(ts) ==
    IF ts.kind = "None"
    THEN [kind |-> "dict", d |-> [k \in {OBSERVATIONS} \cup DOMAIN loci |-> <<>>]]
    ELSE ts

\* variant: every locus is sampled as the EXPOSED locus
Sample_wrongLocus(l) == Cardinality(loci[EXPOSED])

\* the sample appended for locus l
Sample(l) == Cardinality(loci[l])

\* variant: an empty locus is not sampled
observe_skipsEmpty(t, e) ==
    LET ts == FirstRun(timeSeries)
        timed == [ts.d EXCEPT ![OBSERVATIONS] = Append(@, t)]
        sized == [k \in DOMAIN timed |->
                    IF k \in DOMAIN loci /\ loci[k] # {}
                    THEN Append(timed[k], Cardinality(loci[k]))
                    ELSE timed[k]]
    IN  /\ timeSeries' = [ts EXCEPT !.d = sized]
        /\ UNCHANGED <<error, comp, loci, occupied>>

\* variant: a locus is sampled by taking its elements out
observe_drainsLoci(t, e) ==
    LET ts == FirstRun(timeSeries)
        timed == [ts.d EXCEPT ![OBSERVATIONS] = Append(@, t)]
        sized == [k \in DOMAIN timed |->
                    IF k \in DOMAIN loci THEN Append(timed[k], Cardinality(loci[k]))
                    ELSE timed[k]]
    IN  /\ timeSeries' = [ts EXCEPT !.d = sized]
        /\ loci' = [l \in DOMAIN loci |-> {}]
        /\ UNCHANGED <<error, comp, occupied>>

\* observe(t, e): e is ignored.  The loci are read, never written.
observe(t, e) ==
    LET ts == FirstRun(timeSeries)
        timed == [ts.d EXCEPT ![OBSERVATIONS] = Append(@, t)]
        sized == [k \in DOMAIN timed |->
                    IF k \in DOMAIN loci THEN Append(timed[k], Sample(k)) ELSE timed[k]]
    IN  /\ UNCHANGED <<comp, loci, occupied>>
        /\ IF timeSeries.kind = "unset"
           THEN /\ error' = "AttributeError"
                /\ UNCHANGED timeSeries
           ELSE IF DOMAIN loci \subseteq DOMAIN timed
           THEN /\ timeSeries' = [ts EXCEPT !.d = sized]
                /\ UNCHANGED error
           ELSE \* a locus without a list: the time is appended, then the loop
                \* over the loci stops at that locus with a KeyError.  The
                \* order of the loop is the collaborator's: any set of the
                \* other loci may have been sampled before it.
                /\ \E sampled \in SUBSET (DOMAIN loci \cap DOMAIN timed) :
                      timeSeries' = [ts EXCEPT !.d =
                          [k \in DOMAIN timed |->
                              IF k \in sampled THEN sized[k] ELSE timed[k]]]
                /\ error' = "KeyError"

-----------------------------------------------------------------------------
(* The lifecycle and the event loop *)

\* the processes as constructed, over a network of n nodes
Constructed(n, nets) ==
    /\ phase = "constructed"
    /\ network \in nets
    /\ params = <<>>
    /\ comp = [i \in 1..n |-> NoCompartment]
    /\ loci = <<>>
    /\ rules = <<>>
    /\ occupied = [e \in AllEdges |-> NotOccupied]
    /\ now = 0
    /\ posted = {}
    /\ timeSeries = NoTimeSeries("unset")
    /\ results = NoResults
    /\ error = "none"
    /\ lastEvent = NoEvent
    /\ nFired = 0
    /\ nObs = 0

Init == Constructed(NumNodes, Networks)

\* variant: the store is initialised only if there is none yet
reset_onlyFirst ==
    timeSeries' = IF timeSeries.kind = "unset" THEN NoTimeSeries("None") ELSE timeSeries

\* Monitor.reset(): the store is dropped
reset ==
    timeSeries' = NoTimeSeries("None")

\* Monitor.reset, with the reset of the processes' shared state.  Results
\* taken earlier keep the dict they hold as it then is.
ResetRun ==
    /\ phase' = "reset"
    /\ reset
    /\ results' = IF results.shared /\ timeSeries'.kind # "dict"
                  THEN [results EXCEPT !.rc[TIMESERIES] = timeSeries, !.shared = FALSE]
                  ELSE results
    /\ comp' = [n \in Nodes |-> NoCompartment]
    /\ loci' = <<>>
    /\ rules' = <<>>
    /\ occupied' = [e \in AllEdges |-> NotOccupied]
    /\ now' = 0
    /\ posted' = {}
    /\ lastEvent' = NoEvent
    /\ nFired' = 0
    /\ nObs' = 0
    /\ UNCHANGED <<network, params, error>>

\* the first reset of a Monitor
Reset ==
    /\ phase = "constructed"
    /\ ResetRun

\* the reset that opens a further run
ResetAgain ==
    /\ phase = "done"
    /\ ResetRun

\* SEIR.build(params), the collaborator seeding the compartments as seed
Build(p, seed) ==
    /\ phase = "reset"
    /\ params' = p
    /\ comp' = seed
    /\ loci' = [l \in DOMAIN TrackedLoci |->
                  {x \in Elements(l) : Qualifies(l, seed, x)}]
    /\ rules' = EventRules(p)
    /\ phase' = "seirBuilt"
    /\ UNCHANGED <<network, occupied, now, posted, timeSeries, results, error,
                   lastEvent, nFired, nObs>>

SEIRBuild ==
    /\ phase = "reset"
    /\ \E p \in ParamSets : \E seed \in Seedings(p[P_EXPOSED]) : Build(p, seed)

\* variant: the first observation is posted one interval late
MonitorBuild_startsLate ==
    /\ phase = "seirBuilt"
    /\ LET delta == params[DELTA] IN
          posted' = posted \cup {[t |-> delta, dt |-> delta, repeat |-> TRUE]}
    /\ phase' = "running"
    /\ UNCHANGED <<network, params, comp, loci, rules, occupied, now,
                   timeSeries, results, error, lastEvent, nFired, nObs>>

\* variant: the observation is posted as a single event
MonitorBuild_postsOnce ==
    /\ phase = "seirBuilt"
    /\ LET delta == params[DELTA] IN
          posted' = posted \cup {[t |-> 0, dt |-> delta, repeat |-> FALSE]}
    /\ phase' = "running"
    /\ UNCHANGED <<network, params, comp, loci, rules, occupied, now,
                   timeSeries, results, error, lastEvent, nFired, nObs>>

\* Monitor.build(params): post the repeating observation
MonitorBuild ==
    /\ phase = "seirBuilt"
    /\ LET delta == params[DELTA] IN
          posted' = posted \cup {[t |-> 0, dt |-> delta, repeat |-> TRUE]}
    /\ phase' = "running"
    /\ UNCHANGED <<network, params, comp, loci, rules, occupied, now,
                   timeSeries, results, error, lastEvent, nFired, nObs>>

Running == phase = "running" /\ error = "none"

\* a per-element event rule may fire on any element currently in its locus
Eligible(l, x) ==
    /\ Running
    /\ l \in DOMAIN rules
    /\ rules[l].prob > 0
    /\ x \in loci[l]

\* the scheduler's record of the handler call it made
Dispatched(l, elem) ==
    /\ lastEvent' = [handler |-> rules[l].handler, elem |-> elem, t |-> now]
    /\ nFired' = nFired + 1
    /\ UNCHANGED <<phase, network, params, rules, now, posted, timeSeries,
                   results, error, nObs>>

InfectAsymptomaticEvent ==
    \E e \in Nodes \X Nodes :
        /\ Eligible(SE, e)
        /\ infectAsymptomatic(now, e)
        /\ Dispatched(SE, e)

InfectEvent ==
    \E e \in Nodes \X Nodes :
        /\ Eligible(SI, e)
        /\ infect(now, e)
        /\ Dispatched(SI, e)

SymptomsEvent ==
    \E n \in Nodes :
        /\ Eligible(EXPOSED, n)
        /\ symptoms(now, n)
        /\ Dispatched(EXPOSED, <<n>>)

RemoveEvent ==
    \E n \in Nodes :
        /\ Eligible(INFECTED, n)
        /\ remove(now, n)
        /\ Dispatched(INFECTED, <<n>>)

\* a posted repeating event that is due runs its handler and is posted again
ObserveEvent ==
    /\ Running
    /\ nObs < MaxObs
    /\ \E ev \in posted :
          /\ ev.t <= now
          /\ observe(ev.t, <<>>)
          /\ posted' = (posted \ {ev}) \cup
                          IF ev.repeat THEN {[ev EXCEPT !.t = ev.t + ev.dt]} ELSE {}
          /\ lastEvent' = [handler |-> "observe", elem |-> <<>>, t |-> ev.t]
    /\ nObs' = nObs + 1
    /\ UNCHANGED <<phase, network, params, rules, now, results, nFired>>

\* simulated time advances once nothing posted is due
Tick ==
    /\ Running
    /\ now < MaxTime
    /\ \A ev \in posted : ev.t > now
    /\ now' = now + 1
    /\ UNCHANGED <<phase, network, params, comp, loci, rules, occupied, posted,
                   timeSeries, results, error, lastEvent, nFired, nObs>>

\* what the other processes of the run contribute to the results: the
\* final size of each compartment
SuperResults == [c \in Compartments |-> Cardinality({n \in Nodes : comp[n] = c})]

\* variant: the Monitor returns a mapping of its own
results_ownMapping ==
    results' = [made |-> TRUE,
                rc |-> [k \in {TIMESERIES} |-> timeSeries],
                shared |-> timeSeries.kind = "dict"]

\* Monitor.results(): the time series is stored into the mapping the other
\* processes returned.  What is stored is the object _timeSeries refers to,
\* not a copy: while "shared" holds, the mapping's entry is that object and
\* reads as timeSeries does.
results_ ==
    LET rc == SuperResults IN
    results' = [made |-> TRUE,
                rc |-> [k \in DOMAIN rc \cup {TIMESERIES} |->
                          IF k = TIMESERIES THEN timeSeries ELSE rc[k]],
                shared |-> timeSeries.kind = "dict"]

\* the time series a results mapping holds
Held(res) == IF res.shared THEN timeSeries ELSE res.rc[TIMESERIES]

\* the run ends and Monitor.results() is taken
Results ==
    /\ Running
    /\ results_
    /\ phase' = "done"
    /\ UNCHANGED <<network, params, comp, loci, rules, occupied, now, posted,
                   timeSeries, error, lastEvent, nFired, nObs>>

Next ==
    \/ Reset
    \/ SEIRBuild
    \/ MonitorBuild
    \/ InfectAsymptomaticEvent
    \/ InfectEvent
    \/ SymptomsEvent
    \/ RemoveEvent
    \/ ObserveEvent
    \/ Tick
    \/ Results

Spec == Init /\ [][Next]_vars

-----------------------------------------------------------------------------
(* The example scenario: 4 nodes, pExposed = 0.25, every event probability   *)
(* 1.0, time_delta = 1.0, one node seeded EXPOSED.  An event of probability  *)
(* 1.0 fires on every element of its locus, and the host stops the run when  *)
(* no event can happen any more.                                             *)

ScenarioNodes == 4

ScenarioParams ==
    [k \in {P_EXPOSED, P_INFECT_ASYMPTOMATIC, P_INFECT_SYMPTOMATIC,
            P_SYMPTOMS, P_REMOVE, DELTA} |->
        CASE k = P_EXPOSED -> 25
          [] k = DELTA -> 1
          [] OTHER -> 100]

\* a connected network of the scenario's size
ScenarioNetworks == {Path(ScenarioNodes)}

ScenarioInit == Constructed(ScenarioNodes, ScenarioNetworks)

\* the seeding draws exactly one node into EXPOSED
ScenarioBuild ==
    /\ phase = "reset"
    /\ \E seed \in Seedings(ScenarioParams[P_EXPOSED]) :
          /\ Cardinality({n \in Nodes : seed[n] = EXPOSED}) = 1
          /\ \A n \in Nodes : seed[n] \in {SUSCEPTIBLE, EXPOSED}
          /\ Build(ScenarioParams, seed)

\* no event rule has an element left to fire on
AtEquilibrium ==
    \A l \in DOMAIN rules : rules[l].prob > 0 => loci[l] = {}

ScenarioEnd ==
    /\ AtEquilibrium
    /\ Results

ScenarioNext ==
    \/ Reset
    \/ ScenarioBuild
    \/ MonitorBuild
    \/ InfectAsymptomaticEvent
    \/ InfectEvent
    \/ SymptomsEvent
    \/ RemoveEvent
    \/ ObserveEvent
    \/ Tick
    \/ ScenarioEnd

\* the run is set up, an event of probability 1.0 that has an element to
\* fire on does fire, and the host ends the run at equilibrium
ScenarioProgress ==
    \/ Reset
    \/ ScenarioBuild
    \/ MonitorBuild
    \/ InfectAsymptomaticEvent
    \/ InfectEvent
    \/ SymptomsEvent
    \/ RemoveEvent
    \/ ScenarioEnd

ScenarioSpec ==
    /\ ScenarioInit
    /\ [][ScenarioNext]_vars
    /\ WF_vars(ScenarioProgress)

-----------------------------------------------------------------------------
(* A run in which the scheduler breaks the locus contract: it hands a       *)
(* handler an element that was in the handler's locus and has left it.  The *)
(* run is not followed past such a call.                                    *)

\* the scheduler's record of a handler call on an element no longer in the
\* handler's locus
StaleDispatched(h, elem) ==
    /\ lastEvent' = [handler |-> h, elem |-> elem, t |-> now]
    /\ nFired' = nFired + 1
    /\ phase' = "stale"
    /\ UNCHANGED <<network, params, rules, now, posted, timeSeries,
                   results, error, nObs>>

\* the edge (n, m) was in SE and SI while m was infectious; m is REMOVED now
StaleInfectEvent ==
    \E e \in Nodes \X Nodes :
        /\ Running
        /\ {e[1], e[2]} \in network
        /\ comp[e[1]] = SUSCEPTIBLE
        /\ comp[e[2]] = REMOVED
        /\ e \notin loci[SE] \cup loci[SI]
        /\ infect(now, e)
        /\ StaleDispatched("infect", e)

\* the node was in the EXPOSED locus; it is INFECTED or REMOVED now
StaleSymptomsEvent ==
    \E n \in Nodes :
        /\ Running
        /\ comp[n] \in {INFECTED, REMOVED}
        /\ n \notin loci[EXPOSED]
        /\ symptoms(now, n)
        /\ StaleDispatched("symptoms", <<n>>)

\* the node was in the INFECTED locus; it is REMOVED now
StaleRemoveEvent ==
    \E n \in Nodes :
        /\ Running
        /\ comp[n] = REMOVED
        /\ n \notin loci[INFECTED]
        /\ remove(now, n)
        /\ StaleDispatched("remove", <<n>>)

StaleNext ==
    \/ Next
    \/ StaleInfectEvent
    \/ StaleSymptomsEvent
    \/ StaleRemoveEvent

StaleSpec == Init /\ [][StaleNext]_vars

-----------------------------------------------------------------------------
(* A run in which another process starts tracking a locus after the         *)
(* Monitor's first observation.                                             *)

TrackLocus ==
    \E l \in DOMAIN OtherLoci \ DOMAIN loci :
        /\ Running
        /\ timeSeries.kind = "dict"
        /\ loci' = [k \in DOMAIN loci \cup {l} |->
                      IF k = l THEN {x \in Elements(l) : Qualifies(l, comp, x)}
                      ELSE loci[k]]
        /\ UNCHANGED <<phase, network, params, comp, rules, occupied, now, posted,
                       timeSeries, results, error, lastEvent, nFired, nObs>>

NewLocusNext ==
    \/ Next
    \/ TrackLocus

NewLocusSpec == Init /\ [][NewLocusNext]_vars

-----------------------------------------------------------------------------
(* A run whose results are also taken while it is still going on.           *)

InterimResults ==
    /\ Running
    /\ ~results.made
    /\ results_
    /\ UNCHANGED <<phase, network, params, comp, loci, rules, occupied, now,
                   posted, timeSeries, error, lastEvent, nFired, nObs>>

InterimNext ==
    \/ Next
    \/ InterimResults

InterimSpec == Init /\ [][InterimNext]_vars

-----------------------------------------------------------------------------
(* Runs one after the other on the same processes, each opened by a reset.  *)
(* The disease is kept still: every event probability is 0.                 *)

RerunParamSets ==
    {p \in ParamSets :
        \A k \in {P_INFECT_ASYMPTOMATIC, P_INFECT_SYMPTOMATIC, P_SYMPTOMS, P_REMOVE} :
            p[k] = 0}

RerunBuild ==
    /\ phase = "reset"
    /\ \E p \in RerunParamSets : \E seed \in Seedings(p[P_EXPOSED]) : Build(p, seed)

RerunNext ==
    \/ Reset
    \/ RerunBuild
    \/ MonitorBuild
    \/ ObserveEvent
    \/ Tick
    \/ Results
    \/ ResetAgain

RerunSpec == Init /\ [][RerunNext]_vars

-----------------------------------------------------------------------------
(* Properties *)

Built == phase \in {"seirBuilt", "running", "done"}
Started == phase \in {"running", "done"}
InfectHandlers == {"infect", "infectAsymptomatic"}
DiseaseHandlers == {"infect", "infectAsymptomatic", "symptoms", "remove"}

\* a step in which the scheduler invoked a disease handler
DiseaseStep == nFired' = nFired + 1
\* a step in which the scheduler invoked Monitor.observe
ObserveStep == nObs' = nObs + 1

EdgeOf(e) == {e[1], e[2]}
Observed == IF timeSeries.kind = "dict" THEN timeSeries.d[OBSERVATIONS] ELSE <<>>

\* the number of elements satisfying a locus's predicate, by direct scan
TrueCount(l, c) == Cardinality({x \in Elements(l) : Qualifies(l, c, x)})

\* C1: infect (also reached through infectAsymptomatic), invoked at time t on
\* an edge of locus SE or SI, moves the susceptible endpoint of the edge to
\* EXPOSED, changes the compartment of no other node, and marks the edge
\* occupied at time t.
C1_InfectExposesSusceptible ==
    [][ (DiseaseStep /\ lastEvent'.handler \in InfectHandlers) =>
          LET e == lastEvent'.elem
              t == lastEvent'.t
              susceptible == {n \in EdgeOf(e) : comp[n] = SUSCEPTIBLE}
          IN  /\ e \in loci[SE] \cup loci[SI]
              /\ Cardinality(susceptible) = 1
              /\ \A n \in Nodes :
                    comp'[n] = IF n \in susceptible THEN EXPOSED ELSE comp[n]
              /\ occupied'[EdgeOf(e)] = t
              /\ \A f \in AllEdges \ {EdgeOf(e)} : occupied'[f] = occupied[f] ]_vars

\* an infection over an SI edge has happened after time 0
C1_Witness ==
    /\ lastEvent.handler = "infect"
    /\ lastEvent.t > 0
    /\ occupied[EdgeOf(lastEvent.elem)] = lastEvent.t
    /\ comp[lastEvent.elem[1]] = EXPOSED
    /\ comp[lastEvent.elem[2]] = INFECTED

\* C2: during a run a node changes compartment only from SUSCEPTIBLE to
\* EXPOSED (by infect or infectAsymptomatic), from EXPOSED to INFECTED (by
\* symptoms) or from INFECTED to REMOVED (by remove).
C2_ForwardTransitionsOnly ==
    [][ phase = "running" =>
          \A n \in Nodes :
             comp'[n] # comp[n] =>
                /\ DiseaseStep
                /\ \/ /\ comp[n] = SUSCEPTIBLE /\ comp'[n] = EXPOSED
                      /\ lastEvent'.handler \in InfectHandlers
                   \/ /\ comp[n] = EXPOSED /\ comp'[n] = INFECTED
                      /\ lastEvent'.handler = "symptoms"
                   \/ /\ comp[n] = INFECTED /\ comp'[n] = REMOVED
                      /\ lastEvent'.handler = "remove" ]_vars

\* a node infected during the run has gone all the way to REMOVED
C2_Witness ==
    /\ lastEvent.handler = "remove"
    /\ \E e \in AllEdges : occupied[e] # NotOccupied
    /\ \A n \in Nodes : comp[n] = REMOVED

\* C3: after N observe invocations every sequence of the store has length N,
\* and each invocation appends exactly one entry to the end of every
\* sequence, leaving the earlier entries as they were.
C3_LockStep ==
    /\ [](Started => /\ timeSeries.kind \in {"None", "dict"}
                     /\ timeSeries.kind = "None" => nObs = 0
                     /\ timeSeries.kind = "dict" =>
                           \A k \in DOMAIN timeSeries.d : Len(timeSeries.d[k]) = nObs)
    /\ [][ ObserveStep =>
             /\ timeSeries'.kind = "dict"
             /\ DOMAIN timeSeries'.d = {OBSERVATIONS} \cup DOMAIN loci
             /\ \A k \in DOMAIN timeSeries'.d :
                   LET old == IF timeSeries.kind = "dict" THEN timeSeries.d[k] ELSE <<>>
                   IN  /\ Len(timeSeries'.d[k]) = Len(old) + 1
                       /\ SubSeq(timeSeries'.d[k], 1, Len(old)) = old ]_vars

\* two observations have been recorded for the times and for the four loci
C3_Witness ==
    /\ nObs = 2
    /\ timeSeries.kind = "dict"
    /\ DOMAIN timeSeries.d = {OBSERVATIONS, SE, SI, EXPOSED, INFECTED}
    /\ \A k \in DOMAIN timeSeries.d : Len(timeSeries.d[k]) = 2

\* C4: the size an observation records for a locus is the number of elements
\* that satisfy the locus's predicate in the compartment assignment of that
\* moment, and no later step changes a recorded size.
C4_RecordedSizeIsTrueCount ==
    [][ (phase = "running" /\ timeSeries'.kind = "dict") =>
          \A l \in DOMAIN loci :
             LET old == IF timeSeries.kind = "dict" THEN timeSeries.d[l] ELSE <<>>
                 new == timeSeries'.d[l]
             IN  /\ Len(new) >= Len(old)
                 /\ \A i \in 1..Len(old) : new[i] = old[i]
                 /\ \A i \in (Len(old) + 1)..Len(new) :
                       /\ ObserveStep
                       /\ comp' = comp
                       /\ new[i] = TrueCount(l, comp) ]_vars

\* the EXPOSED locus was observed at two different sizes
C4_Witness ==
    /\ timeSeries.kind = "dict"
    /\ Len(timeSeries.d[EXPOSED]) = 2
    /\ timeSeries.d[EXPOSED][1] # timeSeries.d[EXPOSED][2]
    /\ timeSeries.d[SI][2] = 1

\* C5: with time_delta > 0 the k-th observation (from 0) is recorded at time
\* k * time_delta, the first at time 0, and no observation that is due is
\* skipped: every multiple of time_delta before the current time is recorded.
C5_ObservationTimes ==
    (Started /\ params[DELTA] > 0) =>
        /\ \A i \in 1..Len(Observed) : Observed[i] = (i - 1) * params[DELTA]
        /\ Len(Observed) = nObs
        /\ Len(Observed) * params[DELTA] >= now

\* with time_delta = 1 the observations of times 0 and 1 are recorded
C5_Witness ==
    /\ Started
    /\ params[DELTA] = 1
    /\ Observed = <<0, 1>>

\* C6: a build with time_delta <= 0 fails: nothing is posted and no event
\* of the run executes.
C6_NonPositiveDeltaRejected ==
    (Started /\ params[DELTA] <= 0) =>
        /\ error # "none"
        /\ posted = {}
        /\ nObs = 0
        /\ nFired = 0

\* C7: during a run infect is only invoked on an edge that is not yet marked
\* occupied, and the mark of an occupied edge never changes afterwards.
C7_OccupiedAtMostOnce ==
    [][ phase = "running" =>
          /\ \A f \in AllEdges :
                occupied[f] # NotOccupied => occupied'[f] = occupied[f]
          /\ (DiseaseStep /\ lastEvent'.handler \in InfectHandlers) =>
                /\ occupied[EdgeOf(lastEvent'.elem)] = NotOccupied
                /\ occupied'[EdgeOf(lastEvent'.elem)] = lastEvent'.t ]_vars

\* an edge marked at time 0 still carries that mark at a later time, after
\* further events
C7_Witness ==
    /\ now > 0
    /\ \E f \in AllEdges : occupied[f] = 0
    /\ lastEvent.handler = "remove"
    /\ lastEvent.t > 0

\* C8: once built, every node carries exactly one of the four compartment
\* labels, so the four compartment counts sum to the number of nodes; right
\* after build every node is SUSCEPTIBLE or EXPOSED.
C8_OneCompartmentPerNode ==
    Built =>
        /\ \A n \in Nodes : comp[n] \in Compartments
        /\ Cardinality({n \in Nodes : comp[n] = SUSCEPTIBLE})
             + Cardinality({n \in Nodes : comp[n] = EXPOSED})
             + Cardinality({n \in Nodes : comp[n] = INFECTED})
             + Cardinality({n \in Nodes : comp[n] = REMOVED}) = Cardinality(Nodes)
        /\ nFired = 0 => \A n \in Nodes : comp[n] \in {SUSCEPTIBLE, EXPOSED}

\* a run in which nodes sit in different compartments, reached by events
C8_Witness ==
    /\ phase = "running"
    /\ nFired >= 3
    /\ \E n \in Nodes : comp[n] = REMOVED
    /\ \E n \in Nodes : comp[n] = EXPOSED

\* C10: with pExposed = 0 no node is seeded EXPOSED, the four loci stay
\* empty, no transition handler is invoked and every node is SUSCEPTIBLE
\* through to the end of the run.
C10_NoSeedNoEvents ==
    (Built /\ params[P_EXPOSED] = 0) =>
        /\ \A n \in Nodes : comp[n] = SUSCEPTIBLE
        /\ \A l \in DOMAIN loci : loci[l] = {}
        /\ nFired = 0
        /\ lastEvent.handler \notin DiseaseHandlers

\* a run with pExposed = 0 and every rate at 1.0 has ended after advancing
\* in time and being observed
C10_Witness ==
    /\ phase = "done"
    /\ params[P_EXPOSED] = 0
    /\ \A l \in DOMAIN rules : rules[l].prob = 100
    /\ now > 0
    /\ nObs > 0

AllRemoved == \A n \in Nodes : comp[n] = REMOVED

\* C11 as stated: in the example scenario the final state of the run has all
\* 4 nodes REMOVED.
C11_FinalStateAllRemoved ==
    phase = "done" => AllRemoved

\* C11, amended: in the example scenario the run eventually reaches a final
\* state in which no node is EXPOSED or INFECTED: every node that was
\* infected, the seeded node among them, is REMOVED and the others are still
\* SUSCEPTIBLE.
C11_EpidemicDiesOut ==
    <>( /\ phase = "done"
        /\ \A n \in Nodes : comp[n] \in {SUSCEPTIBLE, REMOVED}
        /\ \E n \in Nodes : comp[n] = REMOVED
        /\ \A f \in AllEdges : occupied[f] # NotOccupied => \A n \in f : comp[n] = REMOVED )

\* the scenario has ended with all 4 nodes REMOVED, three of them infected
\* over an edge
C11_Witness ==
    /\ phase = "done"
    /\ Cardinality(Nodes) = ScenarioNodes
    /\ AllRemoved
    /\ Cardinality({f \in AllEdges : occupied[f] # NotOccupied}) = ScenarioNodes - 1

\* C12: the results hold under the time-series key a mapping with one entry
\* for the observation times and one per locus, each of the N samples taken,
\* for every N >= 0.
C12_ResultsHoldSeries ==
    results.made =>
        LET ts == Held(results) IN
        /\ ts.kind = "dict"
        /\ DOMAIN ts.d = {OBSERVATIONS} \cup DOMAIN loci
        /\ \A k \in DOMAIN ts.d : Len(ts.d[k]) = nObs

\* C13: Monitor.results() adds the time-series entry and nothing else: every
\* entry of the other processes is in the results with its value.
C13_OtherEntriesKept ==
    [][ (~results.made /\ results'.made) =>
          /\ DOMAIN results'.rc = DOMAIN SuperResults \cup {TIMESERIES}
          /\ \A k \in DOMAIN SuperResults : results'.rc[k] = SuperResults[k]
          /\ results'.rc[TIMESERIES] = timeSeries ]_vars

\* results taken after an epidemic: a REMOVED and a SUSCEPTIBLE count beside
\* a time series of two observations
C13_Witness ==
    /\ results.made
    /\ results.rc[REMOVED] = 1
    /\ results.rc[SUSCEPTIBLE] = 1
    /\ Held(results).kind = "dict"
    /\ Len(Held(results).d[OBSERVATIONS]) = 2

\* C14: a handler invoked on an element that is no longer in its locus raises
\* a consistency fault and changes no compartment, no locus and no edge
\* occupancy.
C14_StaleElementFaults ==
    [][ phase' = "stale" =>
          /\ error' # "none"
          /\ comp' = comp
          /\ loci' = loci
          /\ occupied' = occupied ]_vars

\* C15: once a locus is tracked that the first observation did not see, an
\* observation creates no sequence for it, and the sequences of the store
\* are all of one length after it.
C15_LateLocusKeepsLockStep ==
    (timeSeries.kind = "dict" /\ DOMAIN OtherLoci \subseteq DOMAIN loci) =>
        /\ DOMAIN timeSeries.d \cap DOMAIN OtherLoci = {}
        /\ \A k1, k2 \in DOMAIN timeSeries.d :
              Len(timeSeries.d[k1]) = Len(timeSeries.d[k2])

\* C16: an observation never shortens a sequence of the store, and the time
\* series held by results already returned is the same after an observation
\* as before it.
C16_ResultsFinalized ==
    [][ (ObserveStep /\ timeSeries.kind = "dict") =>
          /\ \A k \in DOMAIN timeSeries.d :
                Len(timeSeries'.d[k]) >= Len(timeSeries.d[k])
          /\ (results.made /\ results' = results) =>
                Held(results)' = Held(results) ]_vars

\* C17: an observation changes no node's compartment, no locus's membership
\* and no edge's occupancy, so every disease event that could fire before it
\* can fire after it and no other can.
C17_ObserveLeavesDiseaseAlone ==
    [][ ObserveStep =>
          /\ comp' = comp
          /\ loci' = loci
          /\ occupied' = occupied
          /\ rules' = rules
          /\ nFired' = nFired
          /\ \A l \in DOMAIN rules : \A x \in Elements(l) :
                Eligible(l, x) <=> Eligible(l, x)' ]_vars

\* an observation taken in the middle of an epidemic: a transmission has
\* happened and a disease event can still fire
C17_Witness ==
    /\ lastEvent.handler = "observe"
    /\ nFired > 0
    /\ \E f \in AllEdges : occupied[f] # NotOccupied
    /\ \E l \in DOMAIN rules : \E x \in Elements(l) : Eligible(l, x)

\* C18: throughout a run exactly one observation is scheduled, so the event
\* queue is never empty, and the run ends only when the host ends it.
C18_ObservationAlwaysScheduled ==
    /\ [](phase = "running" =>
            /\ Cardinality(posted) = 1
            /\ \A ev \in posted : ev.t = nObs * ev.dt)
    /\ [][ (phase = "running" /\ phase' # "running") =>
            (phase' = "done" /\ results'.made) ]_vars

\* two observations have run and the third is scheduled past the end of the
\* simulated time
C18_Witness ==
    /\ phase = "running"
    /\ nObs = 2
    /\ \E ev \in posted : ev.t > MaxTime

Rank(c) ==
    CASE c = SUSCEPTIBLE -> 0
      [] c = EXPOSED -> 1
      [] c = INFECTED -> 2
      [] c = REMOVED -> 3
      [] OTHER -> 0

RECURSIVE SumRank(_, _)
SumRank(c, ns) ==
    IF ns = {} THEN 0
    ELSE LET n == CHOOSE m \in ns : TRUE IN Rank(c[n]) + SumRank(c, ns \ {n})

NoneInfectious == \A n \in Nodes : comp[n] \notin {EXPOSED, INFECTED}

\* C19: every disease event moves one node one compartment forward, an
\* infection always taking a SUSCEPTIBLE node, so a run has at most 3 * N
\* disease events, and once no node is EXPOSED or INFECTED there is none.
C19_BoundedEpidemic ==
    /\ [](Started =>
            /\ nFired <= SumRank(comp, Nodes)
            /\ nFired <= 3 * Cardinality(Nodes)
            /\ (NoneInfectious => \A l \in DOMAIN rules : loci[l] = {}))
    /\ [][ DiseaseStep =>
            /\ SumRank(comp', Nodes) = SumRank(comp, Nodes) + 1
            /\ ~NoneInfectious
            /\ lastEvent'.handler \in InfectHandlers =>
                  /\ comp[lastEvent'.elem[1]] = SUSCEPTIBLE
                  /\ occupied[EdgeOf(lastEvent'.elem)] = NotOccupied ]_vars

\* the epidemic has burnt out after every node went through all three
\* changes but the seed, which went through two
C19_Witness ==
    /\ Started
    /\ NoneInfectious
    /\ \A n \in Nodes : comp[n] = REMOVED
    /\ nFired = 3 * Cardinality(Nodes) - 1

\* C20: after a reset the store is empty, and once observed it holds the
\* observations of the run since that reset and nothing else, whatever the
\* run before held.
C20_ResetDiscardsStore ==
    /\ phase = "reset" => timeSeries.kind = "None"
    /\ (Started /\ nObs = 0) => timeSeries.kind = "None"
    /\ (Started /\ nObs > 0) =>
          /\ timeSeries.kind = "dict"
          /\ \A k \in DOMAIN timeSeries.d : Len(timeSeries.d[k]) = nObs
          /\ \A i \in 1..nObs :
                /\ timeSeries.d[OBSERVATIONS][i] = (i - 1) * params[DELTA]
                /\ timeSeries.d[EXPOSED][i] = Cardinality({n \in Nodes : comp[n] = EXPOSED})

\* a second run with one observation of no EXPOSED node, after a run whose
\* results hold two observations of EXPOSED nodes
C20_Witness ==
    /\ phase = "running"
    /\ results.made
    /\ ~results.shared
    /\ Held(results).kind = "dict"
    /\ timeSeries.kind = "dict"
    /\ Len(Held(results).d[OBSERVATIONS]) = 2
    /\ Held(results).d[EXPOSED][1] > 0
    /\ nObs = 1
    /\ timeSeries.d[EXPOSED] = <<0>>

====
